---- MODULE Spec2Model ----
(***************************************************************************)
(* korolev10/spreadFut: the two entry points under Binance/ that fetch the *)
(* USDT-margined perpetual symbols from the exchangeInfo endpoint.         *)
(*                                                                         *)
(*   fetch_pairs.py                 filter, de-duplicate, sort, write      *)
(*                                  pairs.json; cached list on URLError    *)
(*   fetch_usdt_perpetual_pairs.py  filter, sort, print; exit 1 on error   *)
(*                                                                         *)
(* A symbol (a Python str) is the sequence of the code points of its       *)
(* characters, so "1A" is <<49, 65>> and "" is <<>>; str comparison is the *)
(* lexicographic comparison of these sequences.  A decoded JSON object is  *)
(* a function from its keys to its values; a key the object lacks is       *)
(* outside the function's domain.                                          *)
(***************************************************************************)
EXTENDS Integers, Sequences, FiniteSets, TLC

VARIABLES
    variant,    \* which script runs
    pc,         \* position of main
    response,   \* what the single HTTP GET met (set by the fetch step)
    symbols,    \* main's local `symbols`
    fetched,    \* the list fetch_symbols / extract_usdt_perpetual_symbols returned
    exc,        \* the exception raised ("" when none)
    written,    \* pairs.json has been written by this run
    file,       \* the list serialised into pairs.json
    stdout,     \* the lines printed to standard output
    stderr,     \* the lines printed to standard error
    status      \* the exit status (-1 while main runs)

vars == <<variant, pc, response, symbols, fetched, exc, written, file,
          stdout, stderr, status>>

(***************************************************************************)
(* Bounds of the model.                                                     *)
(***************************************************************************)
MaxRecords == 2

(***************************************************************************)
(* fetch_pairs.py, CACHED_SYMBOLS.                                          *)
(***************************************************************************)
CACHED_SYMBOLS == <<
    \* ACE ACM AAVE ACH ADA ADX AEVO AERGO AGIX AGLD
    <<65,67,69>>, <<65,67,77>>, <<65,65,86,69>>, <<65,67,72>>, <<65,68,65>>, <<65,68,88>>, <<65,69,86,79>>, <<65,69,82,71,79>>, <<65,71,73,88>>, <<65,71,76,68>>,
    \* AIOZ AKRO ALGO ALICE ALPACA ALPHA ALPINE ALT AMB
    <<65,73,79,90>>, <<65,75,82,79>>, <<65,76,71,79>>, <<65,76,73,67,69>>, <<65,76,80,65,67,65>>, <<65,76,80,72,65>>, <<65,76,80,73,78,69>>, <<65,76,84>>, <<65,77,66>>,
    \* ANKR ANT APE API3 APT AR ARB ARK ARKM ARPA
    <<65,78,75,82>>, <<65,78,84>>, <<65,80,69>>, <<65,80,73,51>>, <<65,80,84>>, <<65,82>>, <<65,82,66>>, <<65,82,75>>, <<65,82,75,77>>, <<65,82,80,65>>,
    \* ASR ASTR ATA ATM ATOM AUCTION AUDIO AVA AVAX
    <<65,83,82>>, <<65,83,84,82>>, <<65,84,65>>, <<65,84,77>>, <<65,84,79,77>>, <<65,85,67,84,73,79,78>>, <<65,85,68,73,79>>, <<65,86,65>>, <<65,86,65,88>>,
    \* AXS BADGER BAKE BAL BAND BAR BCH BEAMX BEL
    <<65,88,83>>, <<66,65,68,71,69,82>>, <<66,65,75,69>>, <<66,65,76>>, <<66,65,78,68>>, <<66,65,82>>, <<66,67,72>>, <<66,69,65,77,88>>, <<66,69,76>>,
    \* BETA BICO BIGTIME BLUR BLZ BNB BNX BOME BOND
    <<66,69,84,65>>, <<66,73,67,79>>, <<66,73,71,84,73,77,69>>, <<66,76,85,82>>, <<66,76,90>>, <<66,78,66>>, <<66,78,88>>, <<66,79,77,69>>, <<66,79,78,68>>,
    \* BSV BTC BTCDOM BTTC C98 CAKE CELO CELR CFX
    <<66,83,86>>, <<66,84,67>>, <<66,84,67,68,79,77>>, <<66,84,84,67>>, <<67,57,56>>, <<67,65,75,69>>, <<67,69,76,79>>, <<67,69,76,82>>, <<67,70,88>>,
    \* CHR CHZ CHESS CITY CKB COCOS COMBO COMP COTI
    <<67,72,82>>, <<67,72,90>>, <<67,72,69,83,83>>, <<67,73,84,89>>, <<67,75,66>>, <<67,79,67,79,83>>, <<67,79,77,66,79>>, <<67,79,77,80>>, <<67,79,84,73>>,
    \* CRV CSPR CTK CTSI CVC CVX CYBER DAR DASH
    <<67,82,86>>, <<67,83,80,82>>, <<67,84,75>>, <<67,84,83,73>>, <<67,86,67>>, <<67,86,88>>, <<67,89,66,69,82>>, <<68,65,82>>, <<68,65,83,72>>,
    \* DEFI DEXE DENT DGB DODO DOGE DOT DUSK DYDX
    <<68,69,70,73>>, <<68,69,88,69>>, <<68,69,78,84>>, <<68,71,66>>, <<68,79,68,79>>, <<68,79,71,69>>, <<68,79,84>>, <<68,85,83,75>>, <<68,89,68,88>>,
    \* DYM EDU EGLD ENA ENJ ENS EOS ETC ETH
    <<68,89,77>>, <<69,68,85>>, <<69,71,76,68>>, <<69,78,65>>, <<69,78,74>>, <<69,78,83>>, <<69,79,83>>, <<69,84,67>>, <<69,84,72>>,
    \* ETHFI FET FIDA FIL FLM FLOW FLR FOOTBALL
    <<69,84,72,70,73>>, <<70,69,84>>, <<70,73,68,65>>, <<70,73,76>>, <<70,76,77>>, <<70,76,79,87>>, <<70,76,82>>, <<70,79,79,84,66,65,76,76>>,
    \* FRONT FTM FXS GALA GAL GAS GF GFT GLMR GMT
    <<70,82,79,78,84>>, <<70,84,77>>, <<70,88,83>>, <<71,65,76,65>>, <<71,65,76>>, <<71,65,83>>, <<71,70>>, <<71,70,84>>, <<71,76,77,82>>, <<71,77,84>>,
    \* GMX GRT GTC HBAR HFT HIFI HIGH HNT HOOK HOT
    <<71,77,88>>, <<71,82,84>>, <<71,84,67>>, <<72,66,65,82>>, <<72,70,84>>, <<72,73,70,73>>, <<72,73,71,72>>, <<72,78,84>>, <<72,79,79,75>>, <<72,79,84>>,
    \* ICP ICX ID ILV IMX INJ IOST IOTA IOTX
    <<73,67,80>>, <<73,67,88>>, <<73,68>>, <<73,76,86>>, <<73,77,88>>, <<73,78,74>>, <<73,79,83,84>>, <<73,79,84,65>>, <<73,79,84,88>>,
    \* JASMY JOE JTO JUP JUV KAS KAVA KEY KLAY
    <<74,65,83,77,89>>, <<74,79,69>>, <<74,84,79>>, <<74,85,80>>, <<74,85,86>>, <<75,65,83>>, <<75,65,86,65>>, <<75,69,89>>, <<75,76,65,89>>,
    \* KNC KSM LAZIO LDO LEVER LINA LINK LISTA LIT
    <<75,78,67>>, <<75,83,77>>, <<76,65,90,73,79>>, <<76,68,79>>, <<76,69,86,69,82>>, <<76,73,78,65>>, <<76,73,78,75>>, <<76,73,83,84,65>>, <<76,73,84>>,
    \* LOOKS LOKA LOOM LPT LQTY LRC LTC LTO LUNA2
    <<76,79,79,75,83>>, <<76,79,75,65>>, <<76,79,79,77>>, <<76,80,84>>, <<76,81,84,89>>, <<76,82,67>>, <<76,84,67>>, <<76,84,79>>, <<76,85,78,65,50>>,
    \* LUNC MAGIC MANTA MANA MASK MATIC MAV MAVIA MBOX
    <<76,85,78,67>>, <<77,65,71,73,67>>, <<77,65,78,84,65>>, <<77,65,78,65>>, <<77,65,83,75>>, <<77,65,84,73,67>>, <<77,65,86>>, <<77,65,86,73,65>>, <<77,66,79,88>>,
    \* MDT MEME MINA MKR MTL NEAR NEO NFP NKN NMR
    <<77,68,84>>, <<77,69,77,69>>, <<77,73,78,65>>, <<77,75,82>>, <<77,84,76>>, <<78,69,65,82>>, <<78,69,79>>, <<78,70,80>>, <<78,75,78>>, <<78,77,82>>,
    \* NOT NTRN OCEAN OG OMG OM OMNI ONDO ONT OP
    <<78,79,84>>, <<78,84,82,78>>, <<79,67,69,65,78>>, <<79,71>>, <<79,77,71>>, <<79,77>>, <<79,77,78,73>>, <<79,78,68,79>>, <<79,78,84>>, <<79,80>>,
    \* ORDI PAXG PEOPLE PEPE PENDLE PERP PHA PHB PIXEL
    <<79,82,68,73>>, <<80,65,88,71>>, <<80,69,79,80,76,69>>, <<80,69,80,69>>, <<80,69,78,68,76,69>>, <<80,69,82,80>>, <<80,72,65>>, <<80,72,66>>, <<80,73,88,69,76>>,
    \* PLA POL POLYX POLS POND PORTAL PORTO POWR PROM
    <<80,76,65>>, <<80,79,76>>, <<80,79,76,89,88>>, <<80,79,76,83>>, <<80,79,78,68>>, <<80,79,82,84,65,76>>, <<80,79,82,84,79>>, <<80,79,87,82>>, <<80,82,79,77>>,
    \* PSG PYTH QI QNT QTUM RAD RAY RDNT REI REEF
    <<80,83,71>>, <<80,89,84,72>>, <<81,73>>, <<81,78,84>>, <<81,84,85,77>>, <<82,65,68>>, <<82,65,89>>, <<82,68,78,84>>, <<82,69,73>>, <<82,69,69,70>>,
    \* REN RLC RNDR ROSE RPL RBN RSR RUNE RVN SAGA
    <<82,69,78>>, <<82,76,67>>, <<82,78,68,82>>, <<82,79,83,69>>, <<82,80,76>>, <<82,66,78>>, <<82,83,82>>, <<82,85,78,69>>, <<82,86,78>>, <<83,65,71,65>>,
    \* SAND SANTOS SC SEI SFP SHIB SKL SLP SNX SOL
    <<83,65,78,68>>, <<83,65,78,84,79,83>>, <<83,67>>, <<83,69,73>>, <<83,70,80>>, <<83,72,73,66>>, <<83,75,76>>, <<83,76,80>>, <<83,78,88>>, <<83,79,76>>,
    \* SPELL SSV STG STMX STORJ STPT STRAX STRK STX
    <<83,80,69,76,76>>, <<83,83,86>>, <<83,84,71>>, <<83,84,77,88>>, <<83,84,79,82,74>>, <<83,84,80,84>>, <<83,84,82,65,88>>, <<83,84,82,75>>, <<83,84,88>>,
    \* SUI SUN SUPER SUSHI SXP SYN TAO T THETA TIA
    <<83,85,73>>, <<83,85,78>>, <<83,85,80,69,82>>, <<83,85,83,72,73>>, <<83,88,80>>, <<83,89,78>>, <<84,65,79>>, <<84>>, <<84,72,69,84,65>>, <<84,73,65>>,
    \* TLM TNSR TOMO TON TRB TRU TRX TURBO TWT UMA
    <<84,76,77>>, <<84,78,83,82>>, <<84,79,77,79>>, <<84,79,78>>, <<84,82,66>>, <<84,82,85>>, <<84,82,88>>, <<84,85,82,66,79>>, <<84,87,84>>, <<85,77,65>>,
    \* UNFI UNI USDC UTK VANRY VET VOXEL WAVES WIF
    <<85,78,70,73>>, <<85,78,73>>, <<85,83,68,67>>, <<85,84,75>>, <<86,65,78,82,89>>, <<86,69,84>>, <<86,79,88,69,76>>, <<87,65,86,69,83>>, <<87,73,70>>,
    \* WLD WOO XAI XEC XEM XLM XRP XTZ XVG XVS
    <<87,76,68>>, <<87,79,79>>, <<88,65,73>>, <<88,69,67>>, <<88,69,77>>, <<88,76,77>>, <<88,82,80>>, <<88,84,90>>, <<88,86,71>>, <<88,86,83>>,
    \* YFI YGG ZEC ZEN ZETA ZIL ZK ZRO ZRX
    <<89,70,73>>, <<89,71,71>>, <<90,69,67>>, <<90,69,78>>, <<90,69,84,65>>, <<90,73,76>>, <<90,75>>, <<90,82,79>>, <<90,82,88>>,
    \* 1000BONK 1000FLOKI 1000LUNC 1000PEPE 1000SATS 1000SHIB
    <<49,48,48,48,66,79,78,75>>, <<49,48,48,48,70,76,79,75,73>>, <<49,48,48,48,76,85,78,67>>, <<49,48,48,48,80,69,80,69>>, <<49,48,48,48,83,65,84,83>>, <<49,48,48,48,83,72,73,66>>,
    \* 1INCH
    <<49,73,78,67,72>>
>>

(***************************************************************************)
(* str and tuple comparison, str.isdigit, sorted.                          *)
(***************************************************************************)
RECURSIVE StrLess(_, _)
StrLess(a, b) ==
    IF b = <<>> THEN FALSE
    ELSE IF a = <<>> THEN TRUE
    ELSE IF a[1] # b[1] THEN a[1] < b[1]
    ELSE StrLess(Tail(a), Tail(b))

\* c.isdigit() on the characters of the model (ASCII)
isdigit(c) == c \in 48..57

\* the key lambda of custom_sort and of sort_symbols: (item[0].isdigit(), item)
SortKey(item) == <<IF isdigit(item[1]) THEN 1 ELSE 0, item>>

\* the keys of a list's items under the key lambda
SortKeys(values) == [v \in {values[i] : i \in 1..Len(values)} |-> SortKey(v)]

\* the keys of a plain sorted(values): the items themselves
PlainKeys(values) == [v \in {values[i] : i \in 1..Len(values)} |-> <<0, v>>]

\* comparison of two key tuples: the flags first, then the strings
KeyLess(ka, kb) ==
    \/ ka[1] < kb[1]
    \/ (ka[1] = kb[1] /\ StrLess(ka[2], kb[2]))

\* sorted(values, key=...): stable and ascending in the items' keys.  An
\* item's place is the number of items that go before it: those of smaller
\* key and, among those of equal key, the earlier ones.
sorted(values, key) ==
    LET n == Len(values)
        place == {<<Cardinality({j \in 1..n :
                        \/ KeyLess(key[values[j]], key[values[i]])
                        \/ (~KeyLess(key[values[i]], key[values[j]]) /\ j < i)}) + 1, i>> :
                  i \in 1..n}
    IN  [p \in 1..n |-> values[(CHOOSE pi \in place : pi[1] = p)[2]]]

\* sorted(values) with the set() left out
sorted_list(values) == sorted(values, PlainKeys(values))

\* sorted(set(values)): the distinct items, ascending
sorted_set(values) ==
    LET S == {values[i] : i \in 1..Len(values)}
    IN  [p \in 1..Cardinality(S) |->
            CHOOSE x \in S : Cardinality({y \in S : StrLess(y, x)}) = p - 1]

\* item[0] of an empty str raises IndexError
KeyRaises(values) == \E i \in 1..Len(values) : values[i] = <<>>

\* custom_sort without the digit flag in the key
custom_sort_plain(values) == sorted(values, PlainKeys(values))

\* custom_sort that only moves one leading digit-prefixed item to the end
custom_sort_rotate(values) ==
    IF values # <<>> /\ isdigit(values[1][1])
    THEN Tail(values) \o <<values[1]>>
    ELSE values

custom_sort(values) == sorted(values, SortKeys(values))

sort_symbols(values) == sorted(values, SortKeys(values))

(***************************************************************************)
(* The exchange's answer to the one GET of a run.                          *)
(***************************************************************************)
\* "", "A", "AB", "1", "1A"
Symbols == {<<>>, <<65>>, <<65, 66>>, <<49>>, <<49, 65>>}

ContractTypes == {"PERPETUAL", "CURRENT_QUARTER"}

QuoteAssets == {"USDT", "USD"}

Keys == {"symbol", "contractType", "quoteAsset"}

\* the records of the "symbols" array: every choice of the three fields,
\* with any of them left out
SymbolInfos ==
    {[k \in D |-> r[k]] :
        r \in [symbol : Symbols, contractType : ContractTypes,
               quoteAsset : QuoteAssets],
        D \in SUBSET Keys}

SymbolInfoLists == UNION {[1..n -> SymbolInfos] : n \in 0..MaxRecords}

\* a decoded body that has no "symbols" key
NoSymbolsPayload == [timezone |-> "UTC"]

Responses ==
    \* the request does not complete: the host cannot be reached, no answer
    \* arrives within the timeout, the connection is reset while reading
    {[transport |-> t, status |-> 0, json |-> FALSE, payload |-> NoSymbolsPayload] :
        t \in {"unreachable", "no_response", "reset"}}
    \cup
    {[transport |-> "ok", status |-> s, json |-> j, payload |-> NoSymbolsPayload] :
        s \in {200, 204, 503}, j \in BOOLEAN}
    \cup
    {[transport |-> "ok", status |-> 200, json |-> TRUE, payload |-> [symbols |-> l]] :
        l \in SymbolInfoLists}

NoResponse ==
    [transport |-> "none", status |-> 0, json |-> FALSE, payload |-> NoSymbolsPayload]

(***************************************************************************)
(* Exceptions: the classes an exception is an instance of.                 *)
(***************************************************************************)
Classes(e) ==
    CASE e = "HTTPError" -> {"HTTPError", "URLError", "OSError"}
      [] e = "URLError" -> {"URLError", "OSError"}
      [] e = "TimeoutError" -> {"TimeoutError", "OSError"}
      [] e = "ConnectionResetError" -> {"ConnectionResetError", "ConnectionError", "OSError"}
      [] e = "JSONDecodeError" -> {"JSONDecodeError", "ValueError"}
      [] e = "KeyError" -> {"KeyError", "LookupError"}
      [] e = "IndexError" -> {"IndexError", "LookupError"}
      [] e = "RuntimeError" -> {"RuntimeError"}
      [] OTHER -> {}

\* urllib.request.urlopen(req, timeout=...) and the reading of the response:
\* a failure to connect or to send is wrapped in URLError, a status outside
\* 2xx raises HTTPError, a timeout or a reset while the response is awaited
\* or read surfaces as the socket's own OSError
urlopen_raises(r) ==
    CASE r.transport = "unreachable" -> "URLError"
      [] r.transport = "no_response" -> "TimeoutError"
      [] r.transport = "reset" -> "ConnectionResetError"
      [] r.transport = "ok" /\ r.status \notin 200..299 -> "HTTPError"
      [] OTHER -> ""

\* dict.get(key) compared with a str: None when the key is absent
get(d, key) == IF key \in DOMAIN d THEN d[key] ELSE "None"

(***************************************************************************)
(* fetch_pairs.py                                                          *)
(***************************************************************************)
\* the condition of the comprehension in fetch_symbols
fetch_symbols_if(symbol_info) ==
    /\ get(symbol_info, "contractType") = "PERPETUAL"
    /\ get(symbol_info, "quoteAsset") = "USDT"

\* the comprehension: symbol_info["symbol"] of the records that pass
fetch_symbols_list(infos) ==
    LET kept == SelectSeq(infos, fetch_symbols_if)
    IN  [i \in 1..Len(kept) |-> kept[i].symbol]

\* what fetch_symbols raises on a response ("" when it returns)
fetch_symbols_raises(r) ==
    IF urlopen_raises(r) # "" THEN urlopen_raises(r)
    ELSE IF ~r.json THEN "JSONDecodeError"
    ELSE IF "symbols" \notin DOMAIN r.payload THEN "KeyError"
    ELSE IF \E i \in 1..Len(r.payload.symbols) :
                /\ fetch_symbols_if(r.payload.symbols[i])
                /\ "symbol" \notin DOMAIN r.payload.symbols[i]
         THEN "KeyError"
    ELSE ""

\* main, line 81: symbols = fetch_symbols()
fetch_symbols ==
    /\ variant = "fetch_pairs" /\ pc = "start"
    /\ \E r \in Responses :
        /\ response' = r
        /\ IF fetch_symbols_raises(r) # ""
           THEN /\ exc' = fetch_symbols_raises(r)
                /\ pc' = "try_raised"
                /\ UNCHANGED <<symbols, fetched>>
           ELSE /\ symbols' = sorted_set(fetch_symbols_list(r.payload.symbols))
                /\ fetched' = symbols'
                /\ pc' = "else"
                /\ exc' = ""
    /\ UNCHANGED <<variant, written, file, stdout, stderr, status>>

\* except (urllib.error.URLError, urllib.error.HTTPError)
main_catches(e) == Classes(e) \cap {"URLError", "HTTPError"} # {}

\* main, lines 82-85: warn and take the cached list
main_except ==
    /\ variant = "fetch_pairs" /\ pc = "try_raised"
    /\ main_catches(exc)
    /\ stdout' = Append(stdout, [kind |-> "warning", text |-> <<>>])
    /\ symbols' = CACHED_SYMBOLS
    /\ exc' = ""
    /\ pc' = "sort"
    /\ UNCHANGED <<variant, response, fetched, written, file, stderr, status>>

\* main, lines 86-87: symbols = custom_sort(symbols)
main_else ==
    /\ variant = "fetch_pairs" /\ pc = "else"
    /\ IF KeyRaises(symbols)
       THEN /\ exc' = "IndexError"
            /\ pc' = "raised"
            /\ UNCHANGED symbols
       ELSE /\ symbols' = custom_sort(symbols)
            /\ pc' = "sort"
            /\ UNCHANGED exc
    /\ UNCHANGED <<variant, response, fetched, written, file, stdout, stderr, status>>

\* main, line 89: symbols = custom_sort(symbols)
main_sort ==
    /\ variant = "fetch_pairs" /\ pc = "sort"
    /\ IF KeyRaises(symbols)
       THEN /\ exc' = "IndexError"
            /\ pc' = "raised"
            /\ UNCHANGED symbols
       ELSE /\ symbols' = custom_sort(symbols)
            /\ pc' = "write"
            /\ UNCHANGED exc
    /\ UNCHANGED <<variant, response, fetched, written, file, stdout, stderr, status>>

\* main, lines 90-91: write pairs.json, report, return
main_write ==
    /\ variant = "fetch_pairs" /\ pc = "write"
    /\ written' = TRUE
    /\ file' = symbols
    /\ stdout' = Append(stdout, [kind |-> "saved", text |-> <<Len(symbols)>>])
    /\ status' = 0
    /\ pc' = "done"
    /\ UNCHANGED <<variant, response, symbols, fetched, exc, stderr>>

(***************************************************************************)
(* fetch_usdt_perpetual_pairs.py                                           *)
(***************************************************************************)
\* fetch_exchange_info without the test of response.status
fetch_exchange_info_any_status(r) ==
    IF urlopen_raises(r) # "" THEN urlopen_raises(r)
    ELSE IF ~r.json THEN "JSONDecodeError"
    ELSE ""

\* what fetch_exchange_info raises on a response ("" when it returns)
fetch_exchange_info_raises(r) ==
    IF urlopen_raises(r) # "" THEN urlopen_raises(r)
    ELSE IF r.status # 200 THEN "RuntimeError"
    ELSE IF ~r.json THEN "JSONDecodeError"
    ELSE ""

\* main, line 52: payload = fetch_exchange_info()
fetch_exchange_info ==
    /\ variant = "fetch_usdt_perpetual_pairs" /\ pc = "start"
    /\ \E r \in Responses :
        /\ response' = r
        /\ IF fetch_exchange_info_raises(r) # ""
           THEN /\ exc' = fetch_exchange_info_raises(r)
                /\ pc' = "try_raised"
           ELSE /\ exc' = ""
                /\ pc' = "extract"
    /\ UNCHANGED <<variant, symbols, fetched, written, file, stdout, stderr, status>>

\* the loop's tests without the one on quoteAsset
extract_keeps_any_quote(symbol_info) ==
    /\ ~(get(symbol_info, "contractType") # "PERPETUAL")
    /\ "symbol" \in DOMAIN symbol_info
    /\ symbol_info.symbol # <<>>

\* the records that pass the three tests of the loop
extract_keeps(symbol_info) ==
    /\ ~(get(symbol_info, "contractType") # "PERPETUAL")
    /\ ~(get(symbol_info, "quoteAsset") # "USDT")
    /\ "symbol" \in DOMAIN symbol_info
    /\ symbol_info.symbol # <<>>

extract_usdt_perpetual_symbols(payload) ==
    LET infos == IF "symbols" \in DOMAIN payload THEN payload.symbols ELSE <<>>
        kept == SelectSeq(infos, extract_keeps)
    IN  [i \in 1..Len(kept) |-> kept[i].symbol]

\* main, line 53: symbols = extract_usdt_perpetual_symbols(payload)
main_extract ==
    /\ variant = "fetch_usdt_perpetual_pairs" /\ pc = "extract"
    /\ symbols' = extract_usdt_perpetual_symbols(response.payload)
    /\ fetched' = symbols'
    /\ pc' = "sort"
    /\ UNCHANGED <<variant, response, exc, written, file, stdout, stderr, status>>

\* except (urllib.error.URLError, RuntimeError, json.JSONDecodeError)
console_catches(e) ==
    Classes(e) \cap {"URLError", "RuntimeError", "JSONDecodeError"} # {}

\* main, lines 54-56: report on stderr, sys.exit(1)
console_except ==
    /\ variant = "fetch_usdt_perpetual_pairs" /\ pc = "try_raised"
    /\ console_catches(exc)
    /\ stderr' = Append(stderr, "Failed to retrieve symbols")
    /\ status' = 1
    /\ pc' = "done"
    /\ UNCHANGED <<variant, response, symbols, fetched, exc, written, file, stdout>>

\* main, line 58: the loop's iterable, sort_symbols(symbols)
console_sort ==
    /\ variant = "fetch_usdt_perpetual_pairs" /\ pc = "sort"
    /\ IF KeyRaises(symbols)
       THEN /\ exc' = "IndexError"
            /\ pc' = "raised"
            /\ UNCHANGED symbols
       ELSE /\ symbols' = sort_symbols(symbols)
            /\ pc' = "print"
            /\ UNCHANGED exc
    /\ UNCHANGED <<variant, response, fetched, written, file, stdout, stderr, status>>

\* main, line 59: print(symbol), one item of the loop
console_print ==
    /\ variant = "fetch_usdt_perpetual_pairs" /\ pc = "print"
    /\ Len(stdout) < Len(symbols)
    /\ stdout' = Append(stdout, [kind |-> "symbol", text |-> symbols[Len(stdout) + 1]])
    /\ UNCHANGED <<variant, pc, response, symbols, fetched, exc, written, file,
                   stderr, status>>

\* the loop is exhausted: main returns and the interpreter exits with 0
console_return ==
    /\ variant = "fetch_usdt_perpetual_pairs" /\ pc = "print"
    /\ Len(stdout) = Len(symbols)
    /\ status' = 0
    /\ pc' = "done"
    /\ UNCHANGED <<variant, response, symbols, fetched, exc, written, file,
                   stdout, stderr>>

(***************************************************************************)
(* Both scripts: an exception that leaves main ends the interpreter with   *)
(* a traceback on stderr and exit status 1.                                *)
(***************************************************************************)
uncaught ==
    /\ \/ pc = "raised"
       \/ /\ pc = "try_raised"
          /\ variant = "fetch_pairs" => ~main_catches(exc)
          /\ variant = "fetch_usdt_perpetual_pairs" => ~console_catches(exc)
    /\ stderr' = Append(stderr, "Traceback")
    /\ status' = 1
    /\ pc' = "done"
    /\ UNCHANGED <<variant, response, symbols, fetched, exc, written, file, stdout>>

Init ==
    /\ variant \in {"fetch_pairs", "fetch_usdt_perpetual_pairs"}
    /\ pc = "start"
    /\ response = NoResponse
    /\ symbols = <<>>
    /\ fetched = <<>>
    /\ exc = ""
    /\ written = FALSE
    /\ file = <<>>
    /\ stdout = <<>>
    /\ stderr = <<>>
    /\ status = -1

Next ==
    \/ fetch_symbols
    \/ main_except
    \/ main_else
    \/ main_sort
    \/ main_write
    \/ fetch_exchange_info
    \/ main_extract
    \/ console_except
    \/ console_sort
    \/ console_print
    \/ console_return
    \/ uncaught

Spec == Init /\ [][Next]_vars

TypeOK ==
    /\ variant \in {"fetch_pairs", "fetch_usdt_perpetual_pairs"}
    /\ pc \in {"start", "try_raised", "else", "extract", "sort", "write",
               "print", "raised", "done"}
    /\ written \in BOOLEAN
    /\ status \in {-1, 0, 1}

(***************************************************************************)
(* Notions the properties are stated in.                                   *)
(***************************************************************************)
IsFile == variant = "fetch_pairs"

IsConsole == variant = "fetch_usdt_perpetual_pairs"

FirstIsDigit(s) == s # <<>> /\ isdigit(s[1])

\* digit-prefixed symbols behind the others, each group ascending
Ordered(list) ==
    \A i, j \in 1..Len(list) :
        i < j =>
            /\ FirstIsDigit(list[i]) => FirstIsDigit(list[j])
            /\ (FirstIsDigit(list[i]) <=> FirstIsDigit(list[j]))
                    => ~StrLess(list[j], list[i])

\* the symbol lines on standard output
Lines == [i \in 1..Len(stdout) |-> stdout[i].text]

Count(list, s) == Cardinality({i \in 1..Len(list) : list[i] = s})

\* the response carries a decoded body with a "symbols" array
HasSymbols == "symbols" \in DOMAIN response.payload

Records == IF HasSymbols THEN response.payload.symbols ELSE <<>>

Complete(rec) == Keys \subseteq DOMAIN rec

WellFormed(rec) == Complete(rec) /\ rec.symbol # <<>>

\* a record with contractType PERPETUAL and quoteAsset USDT
Perpetual(rec) ==
    /\ "contractType" \in DOMAIN rec /\ rec.contractType = "PERPETUAL"
    /\ "quoteAsset" \in DOMAIN rec /\ rec.quoteAsset = "USDT"

\* how many records with contractType PERPETUAL and quoteAsset USDT carry s
Occurrences(s) ==
    Cardinality({i \in 1..Len(Records) :
        /\ Perpetual(Records[i])
        /\ "symbol" \in DOMAIN Records[i]
        /\ Records[i].symbol = s})

\* the fetch met a network error / a protocol error (spec 4.1)
NetworkError == response.transport \in {"unreachable", "no_response", "reset"}

ProtocolError ==
    response.transport = "ok" /\ (response.status \notin 200..299 \/ ~response.json)

\* the extraction step is behind main
Extracted == pc \notin {"start", "extract"}

SortedCached == custom_sort(CACHED_SYMBOLS)

(***************************************************************************)
(* Properties.                                                             *)
(***************************************************************************)
\* C1: whatever main emits, the file's list or the lines printed so far, has
\* the digit-prefixed symbols behind all others and each of the two groups
\* in ascending order, whether the data is live or the cached list.
C1_EmittedOrdered ==
    /\ (IsFile /\ written) => Ordered(file)
    /\ IsConsole => Ordered(Lines)

C1_Witness ==
    /\ IsFile /\ written /\ Len(file) = 2
    /\ ~FirstIsDigit(file[1]) /\ FirstIsDigit(file[2])

\* C2: in the file variant a network error (unreachable host, transport
\* failure, timeout) ends with pairs.json holding custom_sort(CACHED_SYMBOLS)
\* and exit status 0.
C2_NetworkErrorFallsBack ==
    (IsFile /\ pc = "done" /\ NetworkError)
        => (written /\ status = 0 /\ file = SortedCached)

\* C3: in the file variant a protocol error (a status that is not a success,
\* a body that is not JSON) ends with the sorted cached list written and exit
\* status 0.
C3_ProtocolErrorFallsBack ==
    (IsFile /\ pc = "done" /\ ProtocolError)
        => (written /\ status = 0 /\ file = SortedCached)

\* C4: in the console variant a failed fetch (network error, status other
\* than 200, malformed JSON) never prints a symbol line, takes no other list
\* and ends with a message on stderr and exit status 1; otherwise the run
\* ends with exit status 0.
C4_ConsoleFailurePolicy ==
    (IsConsole /\ pc # "start") =>
        IF NetworkError \/ response.status # 200 \/ ~response.json
        THEN /\ stdout = <<>> /\ symbols = <<>> /\ ~written
             /\ pc = "done" => (status = 1 /\ stderr # <<>>)
        ELSE pc = "done" => status = 0

C4_Witness ==
    /\ IsConsole /\ pc = "done" /\ status = 1
    /\ response.transport = "ok" /\ response.status = 204 /\ response.json

\* C5: on a payload of well-formed records the extracted list holds a symbol
\* exactly if some record with that symbol has contractType PERPETUAL and
\* quoteAsset USDT.
C5_ExtractsExactlyPerpetualUsdt ==
    (/\ HasSymbols /\ Extracted
     /\ \A i \in 1..Len(Records) : WellFormed(Records[i]))
        => \A s \in Symbols :
              (Count(fetched, s) > 0) <=>
                  \E i \in 1..Len(Records) :
                      Records[i].symbol = s /\ Perpetual(Records[i])

C5_Witness ==
    /\ IsConsole /\ pc = "done" /\ Len(Records) = 2 /\ Len(fetched) = 1
    /\ \A i \in 1..2 : WellFormed(Records[i])
    /\ Records[1].symbol # Records[2].symbol

\* C6: a record that lacks symbol, contractType or quoteAsset is skipped
\* without an error, and the extraction yields what it yields on the payload
\* without the incomplete records.
C6_IncompleteRecordsSkipped ==
    (/\ HasSymbols /\ Extracted
     /\ \E i \in 1..Len(Records) : ~Complete(Records[i]))
        => /\ pc # "try_raised"
           /\ exc # "KeyError"
           /\ fetched =
                IF IsFile
                THEN sorted_set(fetch_symbols_list(SelectSeq(Records, Complete)))
                ELSE extract_usdt_perpetual_symbols(
                        [symbols |-> SelectSeq(Records, Complete)])

\* C7: a symbol that k >= 1 qualifying records carry is in the file
\* variant's list once and on k lines of the console variant's output.
C7_DuplicatesCollapsedOrKept ==
    \A s \in Symbols \ {<<>>} :
        Occurrences(s) >= 1 =>
            /\ (IsFile /\ written /\ HasSymbols) => Count(file, s) = 1
            /\ (IsConsole /\ pc = "done" /\ status = 0)
                    => Count(Lines, s) = Occurrences(s)

C7_Witness ==
    /\ IsFile /\ written /\ HasSymbols
    /\ Len(Records) = 2 /\ Len(file) = 1 /\ Occurrences(file[1]) = 2

\* C8: sorting a sorted list changes nothing, for the list about to be
\* written (live or cached) and for every list either variant extracts, and
\* the file variant's success path, which sorts twice, writes custom_sort of
\* the list fetch_symbols returned.
C8_SortIdempotent ==
    /\ (IsFile /\ pc = "write") => custom_sort(symbols) = symbols
    /\ (Extracted /\ ~KeyRaises(fetched)) =>
            /\ custom_sort(custom_sort(fetched)) = custom_sort(fetched)
            /\ sort_symbols(sort_symbols(fetched)) = sort_symbols(fetched)
    /\ (IsFile /\ written /\ HasSymbols) => file = custom_sort(fetched)

C8_Witness ==
    /\ IsFile /\ written /\ HasSymbols
    /\ Len(fetched) = 2 /\ file # fetched

\* C9: CACHED_SYMBOLS is already in the order of custom_sort, so the list
\* written on the fallback path is CACHED_SYMBOLS itself.
C9_CachedAlreadySorted ==
    /\ (IsFile /\ written /\ ~HasSymbols) => file = CACHED_SYMBOLS
    /\ (IsFile /\ pc = "sort" /\ ~HasSymbols) => custom_sort(symbols) = symbols

\* C10: every symbol handed to the sorter is a non-empty string and the key's
\* item[0] never raises IndexError.
C10_SorterNeverRaises ==
    /\ pc \in {"else", "sort"} => \A i \in 1..Len(symbols) : symbols[i] # <<>>
    /\ exc # "IndexError"

====
